---- MODULE Spec2Model ----
(***************************************************************************)
(* Invoice processing workflow: the stage graph built by graph_builder.py, *)
(* the stage executor of runner.py, the human review queue (the two        *)
(* ReviewQueueDB classes) and the decision endpoint of api/server.py.      *)
(*                                                                         *)
(* Conventions                                                             *)
(*  - a workflow state (a Python dict) is a record with a field `has`, the *)
(*    set of keys present in the dict, and one typed slot per key; the     *)
(*    slot of an absent key holds the blank value of Blank.                *)
(*  - Python None is the string "None"; an absent key is not in `has`.     *)
(*  - match scores and thresholds are hundredths (0.85 is 85).             *)
(***************************************************************************)
EXTENDS Integers, Sequences, FiniteSets, TLC

VARIABLES
  wf,      \* the workflow document (workflow.json) the graphs were built from
  db,      \* the human_review_queue table: checkpoint id -> row
  clock,   \* the time enqueue stamps the next row with
  mode,    \* the graph of the current invocation: "main", "resume", "unit"
  rt,      \* whether the config of the invocations carries a runtime
  seen,    \* the decision the checkpoint row of the resumed run held when
           \* the invocation started ("" when there was no such row)
  node,    \* the stage the graph runs next, or "END"
  st,      \* the state of the invocation (the channel values of the graph)
  pcs,     \* "idle", "running", "returned" or "raised"
  err,     \* the error the invocation raised
  path,    \* the stages the invocation has started, in order
  out,     \* the state the last finished invocation returned to its caller
  pre,     \* the state the last executed stage was given
  runs,    \* number of invocations (of operations, in the unit runs) so far
  lastOp,  \* the last call on the store or the review API, and its result
  graphs   \* the main and the resume graph build_graphs returned

vars ==
  <<wf, db, clock, mode, rt, seen, node, st, pcs, err, path, out, pre, runs,
    lastOp, graphs>>

\* ------------------------------------------------------------------ bounds
\* checkpoint ids the uuid generator and the callers can produce
MaxIds == 2
\* number of direct calls of node functions and routers in one behaviour
MaxNodeOps == 2
\* number of direct calls of store methods in one behaviour
MaxStoreOps == 3
\* number of graph invocations in one behaviour
MaxRuns == 2

Ids == 1..MaxIds

\* ------------------------------------------------------- program constants
DefaultThreshold == 85
MismatchScore == 60
MatchScore == 92
DefaultScore == 0

\* ------------------------------------------------------------ state schema
\* keys declared by the TypedDict InvoiceWorkflowState
SchemaKeys ==
  {"invoice_id", "raw_payload", "attachments", "ocr_text", "parsed_invoice",
   "line_items", "vendor", "risk_flags", "retrieval", "match_score",
   "needs_hitl", "hitl_checkpoint_id", "review_url", "decision",
   "accounting_entries", "approval_result", "erp_post_result", "status",
   "current_stage", "logs"}

\* keys execute_stage writes that the TypedDict does not declare
ExtraKeys == {"checkpoint_id", "notify_result", "final_payload"}

AllKeys == SchemaKeys \cup ExtraKeys

\* keys whose value the model tracks; every other key is tracked by presence
Blank ==
  [has |-> {}, status |-> "", current_stage |-> "", checkpoint_id |-> 0,
   review_url |-> [base |-> "", id |-> 0], decision |-> "", match_score |-> 0, needs_hitl |-> FALSE,
   force_mismatch |-> FALSE, logs |-> <<>>]

Has(s, k) == k \in s.has

\* state.get("status"), state.get("decision"): None when the key is absent
GetStatus(s) == IF Has(s, "status") THEN s.status ELSE "None"
GetDecision(s) == IF Has(s, "decision") THEN s.decision ELSE "None"
\* state.get("checkpoint_id"): 0 stands for a falsy value (absent or None)
GetCheckpointId(s) == IF Has(s, "checkpoint_id") THEN s.checkpoint_id ELSE 0

WorkflowStatus ==
  {"NEW", "IN_PROGRESS", "PAUSED", "REQUIRES_MANUAL_HANDLING", "COMPLETED",
   "FAILED"}

\* log_event: append one event, creating the list when it is missing
log_event(s, stage, event) ==
  [s EXCEPT !.has = @ \cup {"logs"},
            !.logs = Append(IF Has(s, "logs") THEN s.logs ELSE <<>>,
                            <<stage, event>>)]

\* ensure_defaults: setdefault("status", "NEW"), setdefault("logs", [])
ensure_defaults(s) ==
  [s EXCEPT !.has = @ \cup {"status", "logs"},
            !.status = IF Has(s, "status") THEN s.status ELSE "NEW",
            !.logs = IF Has(s, "logs") THEN s.logs ELSE <<>>]

\* --------------------------------------------------------- workflow config
\* a globals option that workflow.json does not set
Unset == "<unset>"
NoThreshold == -1
NoStage == "<none>"

StageOrder ==
  <<"INTAKE", "UNDERSTAND", "PREPARE", "RETRIEVE", "MATCH_TWO_WAY",
    "CHECKPOINT_HITL", "HITL_DECISION", "RECONCILE", "APPROVE", "POSTING",
    "NOTIFY", "COMPLETE">>

StageIds == {StageOrder[i] : i \in 1..Len(StageOrder)}

\* the abilities each stage lists, in declared order
StageAbilities(sid) ==
  CASE sid = "INTAKE" -> <<"accept_invoice_payload">>
    [] sid = "UNDERSTAND" -> <<"ocr_extract", "parse_line_items">>
    [] sid = "PREPARE" -> <<"normalize_vendor", "enrich_vendor", "compute_flags">>
    [] sid = "RETRIEVE" -> <<"fetch_po", "fetch_grn", "fetch_history">>
    [] sid = "MATCH_TWO_WAY" -> <<"compute_match_score">>
    [] sid = "CHECKPOINT_HITL" -> <<"save_state_for_human_review">>
    [] sid = "HITL_DECISION" -> <<"accept_or_reject_invoice">>
    [] sid = "RECONCILE" -> <<"build_accounting_entries">>
    [] sid = "APPROVE" -> <<"apply_invoice_approval_policy">>
    [] sid = "POSTING" -> <<"post_to_erp", "schedule_payment">>
    [] sid = "NOTIFY" -> <<"notify_vendor", "notify_finance_team">>
    [] OTHER -> <<"output_final_payload">>

\* abilities that name a bigtool pool
PoolAbilities ==
  {"ocr_extract", "enrich_vendor", "fetch_po", "fetch_grn", "fetch_history",
   "post_to_erp"}

\* the workflow documents the graphs are built from: the globals options,
\* the `next` and `terminal` attributes of the CHECKPOINT_HITL stage and the
\* `terminal` attribute of the two branch stages vary, the stage list is fixed
GraphWorkflows ==
  [match_threshold : {NoThreshold, MatchScore},
   pause_status : {Unset, "ON_HOLD"},
   reject_status : {Unset, "REJECTED"},
   cp_next : {"HITL_DECISION", NoStage},
   cp_terminal : BOOLEAN,
   match_terminal : BOOLEAN,
   decision_terminal : BOOLEAN,
   defect : {"none"}]

\* the workflow documents the invocations run: the branch stages are not
\* marked terminal
Workflows ==
  {w \in GraphWorkflows : ~w.match_terminal /\ ~w.decision_terminal}

\* the workflow document with every option left out
DefaultWorkflow ==
  [match_threshold |-> NoThreshold, pause_status |-> Unset,
   reject_status |-> Unset, cp_next |-> "HITL_DECISION", cp_terminal |-> FALSE,
   match_terminal |-> FALSE, decision_terminal |-> FALSE, defect |-> "none"]

\* what can be wrong with the `stages` list of a document, and for the
\* executor: with the `abilities` entry of the first ability of POSTING, or
\* with the document of the runtime, which has no POSTING stage
LoadDefects == {"stage_without_id", "duplicate_id", "empty_stages"}
RunDefects == {"undefined_ability", "unknown_server", "unknown_tool", "stage_missing"}
DefectAbility == "post_to_erp"

\* documents that build but name an ability the executor cannot run
DefectiveWorkflows == {[DefaultWorkflow EXCEPT !.defect = x] : x \in RunDefects}

\* documents with a malformed `stages` list
UnloadableWorkflows == {[DefaultWorkflow EXCEPT !.defect = x] : x \in LoadDefects}

\* workflow.get("stages", []): the id of each entry, "" for an entry without
Stages(w) ==
  IF w.defect = "stage_without_id" THEN [StageOrder EXCEPT ![3] = ""]
  ELSE IF w.defect = "duplicate_id" THEN Append(StageOrder, "INTAKE")
  ELSE IF w.defect = "empty_stages" THEN <<>>
  ELSE StageOrder

\* _index_stages, from entry i on with the ids already in stage_map: "ok" or
\* the ValueError it raises
RECURSIVE IndexFrom(_, _, _)
IndexFrom(ids, i, stage_map) ==
  IF i > Len(ids)
  THEN (IF stage_map = {} THEN "stages_empty" ELSE "ok")
  ELSE IF ids[i] = "" THEN "stage_id_required"
  ELSE IF ids[i] \in stage_map THEN "duplicate_stage_id"
  ELSE IndexFrom(ids, i + 1, stage_map \cup {ids[i]})

_index_stages(w) == IndexFrom(Stages(w), 1, {})

\* the ids of runtime.workflow["stages"], which execute_stage searches
RuntimeStageIds(w) ==
  IF w.defect = "stage_missing" THEN StageIds \ {"POSTING"} ELSE StageIds

\* abilities_cfg: whether the name has an entry, and its server and tool
AbilityDefined(w, ability) ==
  ~(w.defect = "undefined_ability" /\ ability = DefectAbility)

CommonTools ==
  {"accept_invoice_payload", "parse_line_items", "normalize_vendor",
   "compute_flags", "compute_match_score", "build_accounting_entries",
   "output_final_payload"}

AtlasTools ==
  {"ocr_extract", "enrich_vendor", "fetch_po", "fetch_grn", "fetch_history",
   "apply_invoice_approval_policy", "post_to_erp", "schedule_payment",
   "notify_vendor", "notify_finance_team", "accept_or_reject_invoice"}

AbilityServer(w, ability) ==
  IF w.defect = "unknown_server" /\ ability = DefectAbility THEN "LEGACY"
  ELSE IF ability \in CommonTools THEN "COMMON" ELSE "ATLAS"

AbilityTool(w, ability) ==
  IF w.defect = "unknown_tool" /\ ability = DefectAbility THEN "post_invoice"
  ELSE ability

\* stage_map[sid]: the `next` and `terminal` attributes of a stage
StageNext(w, sid) ==
  IF sid = "CHECKPOINT_HITL" THEN w.cp_next
  ELSE IF sid = "COMPLETE" THEN NoStage
  ELSE LET i == CHOOSE j \in 1..Len(StageOrder) : StageOrder[j] = sid
       IN StageOrder[i + 1]

StageTerminal(w, sid) ==
  IF sid = "CHECKPOINT_HITL" THEN w.cp_terminal
  ELSE IF sid = "MATCH_TWO_WAY" THEN w.match_terminal
  ELSE IF sid = "HITL_DECISION" THEN w.decision_terminal
  ELSE sid = "COMPLETE"

\* float(globals.get("match_threshold", 0.85))
Threshold(w) ==
  IF w.match_threshold = NoThreshold THEN DefaultThreshold ELSE w.match_threshold

\* globals.get("hitl", {}).get("pause_status", "PAUSED")
PauseStatus(w) == IF w.pause_status = Unset THEN "PAUSED" ELSE w.pause_status

\* globals.get("hitl", {}).get("reject_status", "REQUIRES_MANUAL_HANDLING")
RejectStatus(w) ==
  IF w.reject_status = Unset THEN "REQUIRES_MANUAL_HANDLING" ELSE w.reject_status

\* ------------------------------------------------------------------- JSON
\* one JSON value: t is its JSON type; s, n, b, a hold a string, a number, a
\* boolean or an array, whichever t says
Tok(t, s, n, b, a) == [t |-> t, s |-> s, n |-> n, b |-> b, a |-> a]
JNull == Tok("null", "", 0, FALSE, <<>>)
JStr(x) == IF x = "None" THEN JNull ELSE Tok("string", x, 0, FALSE, <<>>)
JNum(x) == Tok("number", "", x, FALSE, <<>>)
JBool(x) == Tok("bool", "", 0, x, <<>>)
JArr(x) == Tok("array", "", 0, FALSE, x)
JObj == Tok("object", "", 0, FALSE, <<>>)

\* json.dumps(state): one member per key of the dict, None written as null
json_dumps(s) ==
  [k \in s.has |->
     CASE k = "status" -> JStr(s.status)
       [] k = "current_stage" -> JStr(s.current_stage)
       [] k = "decision" -> JStr(s.decision)
       [] k = "checkpoint_id" -> JNum(s.checkpoint_id)
       [] k = "review_url" -> Tok("string", s.review_url.base, s.review_url.id, FALSE, <<>>)
       [] k = "match_score" -> JNum(s.match_score)
       [] k = "needs_hitl" -> JBool(s.needs_hitl)
       [] k = "raw_payload" -> Tok("object", "", 0, s.force_mismatch, <<>>)
       [] k = "logs" -> JArr(s.logs)
       [] OTHER -> JObj]

\* a string member read back: null is None
UnStr(j) == IF j.t = "null" THEN "None" ELSE j.s

\* json.loads(text): the dict with the members of the text
json_loads(j) ==
  LET K == DOMAIN j
      Of(k, blank, val) == IF k \in K THEN val ELSE blank
  IN [has |-> K,
      status |-> Of("status", "", UnStr(j["status"])),
      current_stage |-> Of("current_stage", "", UnStr(j["current_stage"])),
      checkpoint_id |-> Of("checkpoint_id", 0, j["checkpoint_id"].n),
      review_url |-> Of("review_url", [base |-> "", id |-> 0],
                        [base |-> j["review_url"].s, id |-> j["review_url"].n]),
      decision |-> Of("decision", "", UnStr(j["decision"])),
      match_score |-> Of("match_score", 0, j["match_score"].n),
      needs_hitl |-> Of("needs_hitl", FALSE, j["needs_hitl"].b),
      force_mismatch |-> Of("raw_payload", FALSE, j["raw_payload"].b),
      logs |-> Of("logs", <<>>, j["logs"].a)]

\* ------------------------------------------------- human review queue (DB)
NoRow ==
  [present |-> FALSE, status |-> "", review_url |-> [base |-> "", id |-> 0],
   state_json |-> json_dumps(Blank), created_at |-> 0, decision |-> ""]

ReviewBase == "http://localhost:8000"

\* as enqueue, writing the status column only: the other columns keep what
\* the row held, or stay unset
enqueue_status_only(d, id, s, now) ==
  [d EXCEPT ![id] = [@ EXCEPT !.present = TRUE, !.status = "PAUSED"]]

\* ReviewQueueDB.enqueue: INSERT OR REPLACE of the whole row
enqueue(d, id, s, now) ==
  [d EXCEPT ![id] =
     [present |-> TRUE, status |-> "PAUSED",
      review_url |-> [base |-> ReviewBase, id |-> id],
      state_json |-> json_dumps(s), created_at |-> now, decision |-> "None"]]

\* the review URL enqueue returns
enqueue_url(id) == [base |-> ReviewBase, id |-> id]

\* ReviewQueueDB.get: None (found = FALSE) when no row has the id
NotFound ==
  [found |-> FALSE, checkpoint_id |-> 0, status |-> "",
   review_url |-> [base |-> "", id |-> 0], state |-> Blank, created_at |-> 0,
   decision |-> ""]

get(d, id) ==
  IF ~d[id].present THEN NotFound
  ELSE [found |-> TRUE, checkpoint_id |-> id, status |-> d[id].status,
        review_url |-> d[id].review_url, state |-> json_loads(d[id].state_json),
        created_at |-> d[id].created_at, decision |-> d[id].decision]

\* as set_decision, keeping a decision the row already holds
set_decision_first_wins(d, id, dec) ==
  IF d[id].present /\ d[id].decision = "None"
  THEN [d EXCEPT ![id].decision = dec, ![id].status = "DECIDED"]
  ELSE d

\* as set_decision, inserting a row when none has the id
set_decision_upsert(d, id, dec) ==
  [d EXCEPT ![id].present = TRUE, ![id].decision = dec, ![id].status = "DECIDED"]

\* persistence.review_db.ReviewQueueDB.set_decision:
\* UPDATE ... SET decision = ?, status = 'DECIDED' WHERE checkpoint_id = ?
set_decision(d, id, dec) ==
  IF d[id].present
  THEN [d EXCEPT ![id].decision = dec, ![id].status = "DECIDED"]
  ELSE d

\* runner.ReviewQueueDB.set_decision: UPDATE ... SET decision = ?
runner_set_decision(d, id, dec) ==
  IF d[id].present THEN [d EXCEPT ![id].decision = dec] ELSE d

\* runner.ReviewQueueDB.set_status: UPDATE ... SET status = ?
set_status(d, id, status) ==
  IF d[id].present THEN [d EXCEPT ![id].status = status] ELSE d

\* ---------------------------------------------------------- stage executor
\* _apply_result_to_state: the keys an ability's result is merged into
ResultKeys(ability, s) ==
  CASE ability = "accept_invoice_payload" -> {"invoice_id"}
    [] ability = "ocr_extract" -> {"ocr_text"}
    [] ability = "parse_line_items" -> {"parsed_invoice", "line_items", "vendor"}
    [] ability \in {"normalize_vendor", "enrich_vendor"} -> {"vendor"}
    [] ability = "compute_flags" -> {"risk_flags"}
    [] ability \in {"fetch_po", "fetch_grn", "fetch_history"} -> {"retrieval"}
    [] ability = "compute_match_score" -> {"match_score"}
    [] ability = "build_accounting_entries" -> {"accounting_entries"}
    [] ability = "apply_invoice_approval_policy" -> {"approval_result"}
    [] ability \in {"post_to_erp", "schedule_payment"} -> {"erp_post_result"}
    [] ability \in {"notify_vendor", "notify_finance_team"} -> {"notify_result"}
    [] ability = "output_final_payload" -> {"final_payload"}
    [] OTHER -> {}

\* _mock_common_tool("compute_match_score"): 0.60 when the raw payload has
\* force_mismatch = True, 0.92 otherwise
compute_match_score(s) ==
  IF Has(s, "raw_payload") /\ s.force_mismatch THEN MismatchScore ELSE MatchScore

_apply_result_to_state(ability, s) ==
  LET t == [s EXCEPT !.has = @ \cup ResultKeys(ability, s)]
  IN IF ability = "compute_match_score"
     THEN [t EXCEPT !.match_score = compute_match_score(s)]
     ELSE t

\* one turn of the ability loop of execute_stage: the pool selection, the
\* call and the merge of its result, each with its log event
\* the result is the state and e, "ok" or the ValueError raised
RunAbility(w, sid, ability, s) ==
  LET s1 == IF ability \in PoolAbilities
            THEN log_event(s, sid, "bigtool_select") ELSE s
      s2 == log_event(s1, sid, "ability_call")
      s3 == log_event(s2, sid, "ability_result")
      server == AbilityServer(w, ability)
      tool == AbilityTool(w, ability)
  IN IF ~AbilityDefined(w, ability) THEN [s |-> s, e |-> "ability_not_defined"]
     ELSE IF server \notin {"COMMON", "ATLAS"} THEN [s |-> s2, e |-> "unknown_server"]
     ELSE IF server = "COMMON" /\ tool \notin CommonTools
       THEN [s |-> s2, e |-> "unknown_tool"]
     ELSE IF server = "ATLAS" /\ tool \notin AtlasTools
       THEN [s |-> s2, e |-> "unknown_tool"]
     ELSE [s |-> _apply_result_to_state(ability, s3), e |-> "ok"]

\* the ability loop of execute_stage from the i-th ability on: it stops at
\* the first ability that raises
RECURSIVE RunAbilities(_, _, _, _, _)
\* as RunAbilities, going on to the next ability after one that raised
RunAbilities_continue(w, sid, abilities, i, s) ==
  IF i > Len(abilities) THEN [s |-> s, e |-> "ok"]
  ELSE CHOOSE res \in
         {RunAbilities(w, sid, abilities, i + 1, r.s) :
            r \in {RunAbility(w, sid, abilities[i], s)}} : TRUE

\* (the result r of one ability is bound as the one element of a set, so
\* that it is computed once)
RunAbilities(w, sid, abilities, i, s) ==
  IF i > Len(abilities) THEN [s |-> s, e |-> "ok"]
  ELSE CHOOSE res \in
         {IF r.e # "ok" THEN r
          ELSE RunAbilities(w, sid, abilities, i + 1, r.s) :
            r \in {RunAbility(w, sid, abilities[i], s)}} : TRUE

\* float(state.get("match_score", 0.0))
GetMatchScore(s) == IF Has(s, "match_score") THEN s.match_score ELSE DefaultScore

\* the result of execute_stage: the state it returns, the store it leaves and
\* e, "ok" or the error it raises
Res(s, d, e) == [s |-> s, d |-> d, e |-> e]

\* as ExecCheckpoint, drawing a new id also when the state has one
ExecCheckpoint_new_id(w, s, d, now, fresh) ==
  LET cid == IF fresh # 0 THEN fresh
             ELSE IF GetCheckpointId(s) = 1 THEN 2 ELSE 1
      s1 == [s EXCEPT !.has = @ \cup {"checkpoint_id", "status"},
                      !.checkpoint_id = cid, !.status = PauseStatus(w)]
      d1 == enqueue(d, cid, s1, now)
      s2 == [s1 EXCEPT !.has = @ \cup {"review_url"},
                       !.review_url = enqueue_url(cid)]
  IN Res(log_event(s2, "CHECKPOINT_HITL", "checkpoint_created"), d1, "ok")

\* as ExecCheckpoint, storing the review URL in the state before the state
\* is handed to enqueue
ExecCheckpoint_url_first(w, s, d, now, fresh) ==
  LET cid == IF GetCheckpointId(s) # 0 THEN GetCheckpointId(s) ELSE fresh
      s1 == [s EXCEPT !.has = @ \cup {"checkpoint_id", "status", "review_url"},
                      !.checkpoint_id = cid, !.status = PauseStatus(w),
                      !.review_url = enqueue_url(cid)]
      d1 == enqueue(d, cid, s1, now)
  IN Res(log_event(s1, "CHECKPOINT_HITL", "checkpoint_created"), d1, "ok")

\* the CHECKPOINT_HITL branch of execute_stage; fresh is the uuid it draws
ExecCheckpoint(w, s, d, now, fresh) ==
  LET cid == IF GetCheckpointId(s) # 0 THEN GetCheckpointId(s) ELSE fresh
      s1 == [s EXCEPT !.has = @ \cup {"checkpoint_id", "status"},
                      !.checkpoint_id = cid, !.status = PauseStatus(w)]
      d1 == enqueue(d, cid, s1, now)
      s2 == [s1 EXCEPT !.has = @ \cup {"review_url"},
                       !.review_url = enqueue_url(cid)]
  IN Res(log_event(s2, "CHECKPOINT_HITL", "checkpoint_created"), d1, "ok")

ExecMatchPost_at_most(w, s) ==
  log_event([s EXCEPT !.has = @ \cup {"needs_hitl"},
                      !.needs_hitl = GetMatchScore(s) <= Threshold(w)],
            "MATCH_TWO_WAY", "match_evaluated")

\* the MATCH_TWO_WAY post-processing of execute_stage
ExecMatchPost(w, s) ==
  log_event([s EXCEPT !.has = @ \cup {"needs_hitl"},
                      !.needs_hitl = GetMatchScore(s) < Threshold(w)],
            "MATCH_TWO_WAY", "match_evaluated")

\* as ExecDecision, without the two checks that raise
ExecDecision_unchecked(w, s, d) ==
  LET cid == GetCheckpointId(s)
      dec == IF cid # 0 /\ get(d, cid).found THEN get(d, cid).decision ELSE "None"
  IN Res(log_event([s EXCEPT !.has = @ \cup {"decision"}, !.decision = dec],
                   "HITL_DECISION", "hitl_decision_loaded"), d, "ok")

\* the HITL_DECISION block of execute_stage
ExecDecision(w, s, d) ==
  LET cid == GetCheckpointId(s)
      row == get(d, cid)
      s1 == log_event([s EXCEPT !.has = @ \cup {"decision"},
                                !.decision = row.decision],
                      "HITL_DECISION", "hitl_decision_loaded")
  IN IF cid = 0 THEN Res(s, d, "checkpoint_id_required")
     ELSE IF ~row.found THEN Res(s, d, "no_review_record")
     ELSE IF row.decision = "REJECT"
          THEN Res([s1 EXCEPT !.status = RejectStatus(w)], d, "ok")
          ELSE Res(s1, d, "ok")

\* as ExecComplete, without the test of the status
ExecComplete_always(s) ==
  [s EXCEPT !.has = @ \cup {"status"}, !.status = "COMPLETED"]

\* the COMPLETE block of execute_stage
ExecComplete(s) ==
  IF GetStatus(s) \notin {"REQUIRES_MANUAL_HANDLING", "FAILED"}
  THEN [s EXCEPT !.has = @ \cup {"status"}, !.status = "COMPLETED"]
  ELSE s

\* as execute_stage, saving the partial state under checkpoint 1 when an
\* ability raises
execute_stage_save_partial(w, sid, s, d, now, fresh) ==
  LET s0 == ensure_defaults(s)
      last(r3) == IF r3.e # "ok" THEN r3
                  ELSE IF sid = "COMPLETE" THEN Res(ExecComplete(r3.s), d, "ok")
                  ELSE r3
      post(s2) == IF sid = "HITL_DECISION" THEN last(ExecDecision(w, s2, d))
                  ELSE last(Res(s2, d, "ok"))
      after(r1) == IF r1.e # "ok" THEN Res(r1.s, enqueue(d, 1, r1.s, now), r1.e)
                   ELSE IF sid = "MATCH_TWO_WAY" THEN post(ExecMatchPost(w, r1.s))
                   ELSE post(r1.s)
  IN IF sid \notin RuntimeStageIds(w) THEN Res(s0, d, "stage_not_found")
     ELSE IF sid = "CHECKPOINT_HITL" THEN ExecCheckpoint(w, s0, d, now, fresh)
     ELSE CHOOSE res \in
            {after(r1) : r1 \in {RunAbilities(w, sid, StageAbilities(sid), 1, s0)}} :
            TRUE

\* execute_stage(runtime, stage_id, state, config)
execute_stage(w, sid, s, d, now, fresh) ==
  LET s0 == ensure_defaults(s)
      last(r3) == IF r3.e # "ok" THEN r3
                  ELSE IF sid = "COMPLETE" THEN Res(ExecComplete(r3.s), d, "ok")
                  ELSE r3
      post(s2) == IF sid = "HITL_DECISION" THEN last(ExecDecision(w, s2, d))
                  ELSE last(Res(s2, d, "ok"))
      after(r1) == IF r1.e # "ok" THEN Res(r1.s, d, r1.e)
                   ELSE IF sid = "MATCH_TWO_WAY" THEN post(ExecMatchPost(w, r1.s))
                   ELSE post(r1.s)
  IN IF sid \notin RuntimeStageIds(w) THEN Res(s0, d, "stage_not_found")
     ELSE IF sid = "CHECKPOINT_HITL" THEN ExecCheckpoint(w, s0, d, now, fresh)
     ELSE CHOOSE res \in
            {after(r1) : r1 \in {RunAbilities(w, sid, StageAbilities(sid), 1, s0)}} :
            TRUE

\* ------------------------------------------------------------ graph builder
\* _route_match_two_way: the event it logs and the stage it returns
route_match_log(s) == log_event(s, "MATCH_TWO_WAY", "route_decision")

\* as _route_match_two_way, with the comparison <= for <
_route_match_two_way_le(s, w) ==
  IF GetMatchScore(s) <= Threshold(w) THEN "CHECKPOINT_HITL" ELSE "RECONCILE"

_route_match_two_way(s, w) ==
  IF GetMatchScore(s) < Threshold(w) THEN "CHECKPOINT_HITL" ELSE "RECONCILE"

\* _route_hitl_decision: the event it logs and the stage it returns
route_hitl_log(s) == log_event(s, "HITL_DECISION", "route_decision")

\* as _route_hitl_decision, sending only REJECT to COMPLETE
_route_hitl_decision_reject(s) ==
  IF GetDecision(s) = "REJECT" THEN "COMPLETE" ELSE "RECONCILE"

_route_hitl_decision(s) ==
  IF GetDecision(s) = "ACCEPT" THEN "RECONCILE" ELSE "COMPLETE"

\* as Edge, without the stop at CHECKPOINT_HITL in the main graph
Edge_no_stop(w, main_mode, sid, s) ==
  IF StageTerminal(w, sid) THEN "END"
  ELSE IF sid = "MATCH_TWO_WAY" THEN _route_match_two_way(s, w)
  ELSE IF sid = "HITL_DECISION" THEN _route_hitl_decision(s)
  ELSE IF StageNext(w, sid) # NoStage THEN StageNext(w, sid)
  ELSE "END"

\* _add_nodes_and_edges: the stage (or END) that follows sid in the graph
\* compiled with main_mode, for the state the node left
Edge(w, main_mode, sid, s) ==
  IF StageTerminal(w, sid) THEN "END"
  ELSE IF sid = "MATCH_TWO_WAY" THEN _route_match_two_way(s, w)
  ELSE IF sid = "HITL_DECISION" THEN _route_hitl_decision(s)
  ELSE IF main_mode /\ sid = "CHECKPOINT_HITL" THEN "END"
  ELSE IF StageNext(w, sid) # NoStage THEN StageNext(w, sid)
  ELSE "END"

\* the state after the router, if any, of sid has logged its decision
EdgeLog(w, sid, s) ==
  IF StageTerminal(w, sid) THEN s
  ELSE IF sid = "MATCH_TWO_WAY" THEN route_match_log(s)
  ELSE IF sid = "HITL_DECISION" THEN route_hitl_log(s)
  ELSE s

\* as OutEdges, falling through to the `next` edge after the stop edge of
\* CHECKPOINT_HITL in the main graph
OutEdges_fall_through(w, main_mode, sid) ==
  IF StageTerminal(w, sid) THEN <<"END">>
  ELSE IF sid = "MATCH_TWO_WAY" THEN <<"CHECKPOINT_HITL", "RECONCILE">>
  ELSE IF sid = "HITL_DECISION" THEN <<"RECONCILE", "COMPLETE">>
  ELSE (IF main_mode /\ sid = "CHECKPOINT_HITL" THEN <<"END">> ELSE <<>>)
       \o (IF StageNext(w, sid) # NoStage THEN <<StageNext(w, sid)>> ELSE <<"END">>)

\* _add_nodes_and_edges, one pass of its loop: the targets of the add_edge
\* or add_conditional_edges call made for sid, in the order given
OutEdges(w, main_mode, sid) ==
  IF StageTerminal(w, sid) THEN <<"END">>
  ELSE IF sid = "MATCH_TWO_WAY" THEN <<"CHECKPOINT_HITL", "RECONCILE">>
  ELSE IF sid = "HITL_DECISION" THEN <<"RECONCILE", "COMPLETE">>
  ELSE IF main_mode /\ sid = "CHECKPOINT_HITL" THEN <<"END">>
  ELSE IF StageNext(w, sid) # NoStage THEN <<StageNext(w, sid)>>
  ELSE <<"END">>

\* the router add_conditional_edges attaches to sid, if any
Router(w, sid) ==
  IF StageTerminal(w, sid) THEN "none"
  ELSE IF sid = "MATCH_TWO_WAY" THEN "_route_match_two_way"
  ELSE IF sid = "HITL_DECISION" THEN "_route_hitl_decision"
  ELSE "none"

\* as _add_nodes_and_edges, with INTAKE as the entry point of every graph
_add_nodes_and_edges_intake(w, entry_stage, main_mode) ==
  [entry |-> "INTAKE",
   nodes |-> [sid \in StageIds |-> "make_stage_node"],
   edges |-> [sid \in StageIds |-> OutEdges(w, main_mode, sid)],
   routers |-> [sid \in StageIds |-> Router(w, sid)]]

\* _add_nodes_and_edges: the nodes, the entry point and the edges of a graph
_add_nodes_and_edges(w, entry_stage, main_mode) ==
  [entry |-> entry_stage,
   nodes |-> [sid \in StageIds |-> "make_stage_node"],
   edges |-> [sid \in StageIds |-> OutEdges(w, main_mode, sid)],
   routers |-> [sid \in StageIds |-> Router(w, sid)]]

\* build_graphs: (main_app, resume_app)
build_graphs(w) ==
  [main |-> _add_nodes_and_edges(w, "INTAKE", TRUE),
   resume |-> _add_nodes_and_edges(w, "HITL_DECISION", FALSE)]

\* before build_graphs has run
NoGraphs ==
  LET g == [entry |-> NoStage,
            nodes |-> [sid \in StageIds |-> ""],
            edges |-> [sid \in StageIds |-> <<>>],
            routers |-> [sid \in StageIds |-> ""]]
  IN [main |-> g, resume |-> g]

\* StateGraph(InvoiceWorkflowState): the graph holds one channel per key the
\* TypedDict declares; what an input or a node's return value carries under
\* any other key is not written to a channel
Channels(s) ==
  [has |-> s.has \cap SchemaKeys,
   status |-> s.status, current_stage |-> s.current_stage,
   checkpoint_id |-> IF "checkpoint_id" \in SchemaKeys THEN s.checkpoint_id ELSE 0,
   review_url |-> s.review_url, decision |-> s.decision,
   match_score |-> s.match_score, needs_hitl |-> s.needs_hitl,
   force_mismatch |-> s.force_mismatch, logs |-> s.logs]

\* as StageNode, logging stage_end before the stage has executed
StageNode_early_end(w, sid, s, d, now, fresh, has_runtime) ==
  LET s0 == ensure_defaults(s)
      s1 == [s0 EXCEPT !.has = @ \cup {"current_stage"},
                       !.current_stage = sid,
                       !.status = IF s0.status \in {"None", "NEW"}
                                  THEN "IN_PROGRESS" ELSE @]
      s2 == log_event(log_event(s1, sid, "stage_start"), sid, "stage_end")
  IN IF ~has_runtime
     THEN Res(log_event(s2, sid, "warning"), d, "ok")
     ELSE execute_stage(w, sid, s2, d, now, fresh)

\* make_stage_node(stage_id)._node: has_runtime says whether the config of
\* the invocation carries a runtime
StageNode(w, sid, s, d, now, fresh, has_runtime) ==
  LET s0 == ensure_defaults(s)
      s1 == [s0 EXCEPT !.has = @ \cup {"current_stage"},
                       !.current_stage = sid,
                       !.status = IF s0.status \in {"None", "NEW"}
                                  THEN "IN_PROGRESS" ELSE @]
      s2 == log_event(s1, sid, "stage_start")
      end(r) == IF r.e # "ok" THEN r
                ELSE Res(log_event(r.s, sid, "stage_end"), r.d, "ok")
  IN IF ~has_runtime
     THEN Res(log_event(log_event(s2, sid, "warning"), sid, "stage_end"), d, "ok")
     ELSE CHOOSE res \in
            {end(r) : r \in {execute_stage(w, sid, s2, d, now, fresh)}} : TRUE

\* resume_state_from_checkpoint(runtime, checkpoint_id), for an id with a row
resume_state_from_checkpoint(d, id) ==
  LET row == get(d, id)
      s0 == ensure_defaults(row.state)
      s1 == [s0 EXCEPT !.has = @ \cup {"checkpoint_id", "review_url"},
                       !.checkpoint_id = id, !.review_url = row.review_url]
  IN log_event(s1, "RESUME", "resume_loaded")

\* ------------------------------------------------------------- invocations
EmptyDb == [i \in Ids |-> NoRow]

NoOp ==
  [op |-> "none", id |-> 0, dec |-> "", ok |-> TRUE, ret |-> "",
   had |-> FALSE, before |-> EmptyDb, arg |-> Blank]

\* the record of a call: what it was, whether it returned normally (ok) and
\* what it returned (ret), whether the table had a row for id before it
Op(op, id, dec, ok, ret) ==
  [op |-> op, id |-> id, dec |-> dec, ok |-> ok, ret |-> ret,
   had |-> IF id \in Ids THEN db[id].present ELSE FALSE,
   before |-> EmptyDb, arg |-> Blank]

Init ==
  /\ wf \in Workflows \cup DefectiveWorkflows
  /\ graphs = build_graphs(wf)
  /\ db = EmptyDb
  /\ clock = 1
  /\ mode = "none"
  /\ rt \in BOOLEAN
  /\ seen = ""
  /\ node = "END"
  /\ st = Blank
  /\ pcs = "idle"
  /\ err = ""
  /\ path = <<>>
  /\ out = Blank
  /\ pre = Blank
  /\ runs = 0
  /\ lastOp = NoOp

\* the initial state run_demo.main builds from the sample invoice
InitialState(force_mismatch) ==
  [Blank EXCEPT !.has = {"raw_payload", "attachments", "status", "logs"},
                !.status = "NEW", !.force_mismatch = force_mismatch]

\* the caller was told to wait for a human: the returned status is the pause
\* status
Paused(s) == Has(s, "status") /\ s.status = PauseStatus(wf)

Start(graph, entry, input) ==
  /\ pcs # "running"
  /\ runs < MaxRuns
  /\ mode' = graph
  /\ node' = entry
  /\ st' = Channels(input)
  /\ pcs' = "running"
  /\ err' = ""
  /\ path' = <<>>
  /\ pre' = Blank
  /\ runs' = runs + 1
  /\ seen' = IF Has(input, "review_url") /\ db[input.review_url.id].present
             THEN db[input.review_url.id].decision ELSE ""
  /\ UNCHANGED <<graphs, wf, db, clock, rt, out, lastOp>>

\* main_app.invoke(state, config)
InvokeMain ==
  \E fm \in BOOLEAN : Start("main", "INTAKE", InitialState(fm))

\* resume_app.invoke(out, config): the caller passes the paused state on
InvokeResume ==
  /\ pcs = "returned"
  /\ Paused(out)
  /\ Start("resume", "HITL_DECISION", out)

\* resume_app.invoke(resume_state_from_checkpoint(runtime, id), config)
InvokeResumeFromCheckpoint ==
  \E id \in Ids :
    /\ db[id].present
    /\ Start("resume", "HITL_DECISION", resume_state_from_checkpoint(db, id))

\* the ids uuid4 can return: any id the table does not hold yet
FreshIds == {i \in Ids : ~db[i].present}

\* as Step, entering the entry stage of the graph a second time
Step_repeat ==
  /\ pcs = "running"
  /\ \E fresh \in (IF node = "CHECKPOINT_HITL" /\ rt /\ GetCheckpointId(st) = 0
                   THEN FreshIds ELSE {0}) :
       \E r \in {StageNode(wf, node, st, db, clock, fresh, rt)} :
         LET s1 == EdgeLog(wf, node, Channels(r.s))
             nxt == IF path = <<>> THEN node
                    ELSE Edge(wf, mode = "main", node, Channels(r.s))
         IN /\ path' = Append(path, node)
            /\ pre' = st
            /\ db' = r.d
            /\ clock' = IF r.d # db THEN clock + 1 ELSE clock
            /\ IF r.e # "ok"
               THEN /\ pcs' = "raised"
                    /\ err' = r.e
                    /\ UNCHANGED <<st, node, out>>
               ELSE /\ st' = s1
                    /\ node' = nxt
                    /\ pcs' = IF nxt = "END" THEN "returned" ELSE "running"
                    /\ out' = IF nxt = "END" THEN s1 ELSE out
                    /\ err' = ""
  /\ UNCHANGED <<graphs, wf, mode, rt, seen, runs, lastOp>>

\* --------------------------------------------------------------- review API

\* one step of the compiled graph: the node of the current stage, the write
\* of what it returns to the channels, and the edge or router that follows
Step ==
  /\ pcs = "running"
  /\ \E fresh \in (IF node = "CHECKPOINT_HITL" /\ rt /\ GetCheckpointId(st) = 0
                   THEN FreshIds ELSE {0}) :
       \E r \in {StageNode(wf, node, st, db, clock, fresh, rt)} :
         LET s1 == EdgeLog(wf, node, Channels(r.s))
             nxt == Edge(wf, mode = "main", node, Channels(r.s))
         IN /\ path' = Append(path, node)
            /\ pre' = st
            /\ db' = r.d
            /\ clock' = IF r.d # db THEN clock + 1 ELSE clock
            /\ IF r.e # "ok"
               THEN /\ pcs' = "raised"
                    /\ err' = r.e
                    /\ UNCHANGED <<st, node, out>>
               ELSE /\ st' = s1
                    /\ node' = nxt
                    /\ pcs' = IF nxt = "END" THEN "returned" ELSE "running"
                    /\ out' = IF nxt = "END" THEN s1 ELSE out
                    /\ err' = ""
  /\ UNCHANGED <<graphs, wf, mode, rt, seen, runs, lastOp>>

\* --------------------------------------------------------------- review API
Decisions == {"ACCEPT", "REJECT"}

\* POST /review/{checkpoint_id}/decision
ApiSetDecision ==
  \E id \in Ids, dec \in Decisions :
    /\ IF get(db, id).found
       THEN /\ db' = set_decision(db, id, dec)
            /\ lastOp' = Op("api_set_decision", id, dec, TRUE, "DECIDED")
       ELSE /\ db' = db
            /\ lastOp' = Op("api_set_decision", id, dec, FALSE, "404")
    /\ UNCHANGED <<graphs, wf, clock, mode, rt, seen, node, st, pcs, err, path, out, pre, runs>>

Next ==
  \/ InvokeMain
  \/ InvokeResume
  \/ InvokeResumeFromCheckpoint
  \/ Step
  \/ ApiSetDecision

Spec == Init /\ [][Next]_vars

\* app.invoke runs the node of the current stage and follows its edge until
\* END or an exception: a started invocation is not left waiting
SpecLive == Spec /\ WF_vars(Step)

\* ---------------------------------------------- direct calls of the nodes
\* A caller that holds a workflow state and a store calls the node functions
\* and the routers one at a time, outside a compiled graph.

\* the record of a direct call, with the table and the state it was given
OpU(op, id, dec, ok, ret) ==
  [Op(op, id, dec, ok, ret) EXCEPT !.before = db, !.arg = st]

BaseState ==
  [Blank EXCEPT !.has = {"raw_payload", "attachments", "status", "logs"},
                !.status = "IN_PROGRESS"]

WithStatus(s, v) == [s EXCEPT !.has = @ \cup {"status"}, !.status = v]
WithDecision(s, v) == [s EXCEPT !.has = @ \cup {"decision"}, !.decision = v]
WithScore(s, v) == [s EXCEPT !.has = @ \cup {"match_score"}, !.match_score = v]
WithCheckpoint(s, v) ==
  [s EXCEPT !.has = @ \cup {"checkpoint_id"}, !.checkpoint_id = v]

OtherDecision == "MAYBE"
UnitScores == {0, 84, 85, 86, 91, 92, 93}

\* a state that carries a checkpoint id, as CHECKPOINT_HITL leaves it
CheckpointStates ==
  {WithCheckpoint(WithStatus(BaseState, v), 1) : v \in {"IN_PROGRESS", "PAUSED"}}

\* the tables a direct call can find: empty, or with the row of checkpoint 1
\* as enqueue and the set_decision methods leave it
SeededDbs ==
  LET d0 == enqueue(EmptyDb, 1, WithCheckpoint(WithStatus(BaseState, "PAUSED"), 1), 1)
  IN {EmptyDb, d0}
     \cup {set_decision(d0, 1, v) : v \in Decisions}
     \cup {runner_set_decision(d0, 1, OtherDecision)}

\* the states and tables the direct calls start from
UnitScenarios ==
  ({BaseState, [BaseState EXCEPT !.has = @ \ {"status"}, !.status = ""]}
   \cup {WithStatus(BaseState, v) : v \in WorkflowStatus \cup {"ON_HOLD", "REJECTED"}}
   \cup {WithDecision(BaseState, v) : v \in Decisions \cup {"None", OtherDecision}}
   \cup {WithScore(BaseState, v) : v \in UnitScores}) \X {EmptyDb}
  \cup (CheckpointStates \X SeededDbs)

InitUnit ==
  /\ wf \in Workflows
  /\ graphs = build_graphs(wf)
  /\ \E sc \in UnitScenarios : st = sc[1] /\ db = sc[2]
  /\ clock = 2
  /\ mode \in {"main", "resume"}
  /\ rt = TRUE
  /\ seen = ""
  /\ node = "END"
  /\ pcs = "idle"
  /\ err = ""
  /\ path = <<>>
  /\ out = Blank
  /\ pre = Blank
  /\ runs = 0
  /\ lastOp = NoOp

UnitStages == {"MATCH_TWO_WAY", "CHECKPOINT_HITL", "HITL_DECISION", "COMPLETE"}

\* make_stage_node(sid)(state, config) followed by the edge of the graph
UnitNode ==
  /\ runs < MaxNodeOps
  /\ \E sid \in UnitStages :
    \E fresh \in (IF sid = "CHECKPOINT_HITL" /\ GetCheckpointId(st) = 0
                  THEN FreshIds ELSE {0}) :
      \E r \in {StageNode(wf, sid, st, db, clock, fresh, TRUE)} :
        LET nxt == Edge(wf, mode = "main", sid, r.s)
        IN /\ runs' = runs + 1
           /\ path' = Append(path, sid)
           /\ pre' = st
           /\ db' = r.d
           /\ clock' = IF r.d # db THEN clock + 1 ELSE clock
           /\ err' = IF r.e = "ok" THEN "" ELSE r.e
           /\ pcs' = IF r.e = "ok" THEN "returned" ELSE "raised"
           /\ st' = IF r.e = "ok" THEN EdgeLog(wf, sid, r.s) ELSE r.s
           /\ node' = IF r.e = "ok" THEN nxt ELSE node
           /\ lastOp' = OpU("node", 0, sid, r.e = "ok", IF r.e = "ok" THEN nxt ELSE "")
           /\ UNCHANGED <<graphs, wf, mode, rt, seen, out>>

\* a direct call of a router on the state
UnitRoute ==
  \E which \in {"MATCH_TWO_WAY", "HITL_DECISION"} :
    /\ runs < MaxNodeOps
    /\ runs' = runs + 1
    /\ pre' = st
    /\ st' = IF which = "MATCH_TWO_WAY" THEN route_match_log(st) ELSE route_hitl_log(st)
    /\ lastOp' = OpU("route", 0, which, TRUE,
                     IF which = "MATCH_TWO_WAY" THEN _route_match_two_way(st, wf)
                     ELSE _route_hitl_decision(st))
    /\ UNCHANGED <<graphs, wf, db, clock, mode, rt, seen, node, pcs, err, path, out>>

\* POST /review/{checkpoint_id}/decision for a checkpoint in the queue,
\* arriving between two direct calls
UnitApiSetDecision ==
  \E id \in Ids, dec \in Decisions :
    /\ runs < MaxNodeOps
    /\ get(db, id).found
    /\ db' = set_decision(db, id, dec)
    /\ lastOp' = OpU("api_set_decision", id, dec, TRUE, "DECIDED")
    /\ UNCHANGED <<graphs, wf, clock, mode, rt, seen, node, st, pcs, err, path, out, pre, runs>>

NextUnit ==
  \/ UnitNode
  \/ UnitRoute
  \/ UnitApiSetDecision

SpecUnit == InitUnit /\ [][NextUnit]_vars

\* ------------------------------------------- direct calls of the store
\* the workflow documents that differ in the options the store could read
StoreWorkflows ==
  {w \in Workflows : /\ w.match_threshold = NoThreshold
                     /\ w.cp_next = "HITL_DECISION"
                     /\ ~w.cp_terminal}

\* the states a caller hands to enqueue
StoreStates ==
  {BaseState, WithDecision(BaseState, "None"), WithScore(BaseState, MismatchScore)}
  \cup {WithCheckpoint(WithStatus(BaseState, PauseStatus(w)), 1) : w \in StoreWorkflows}

InitStore ==
  /\ wf \in StoreWorkflows
  /\ graphs = build_graphs(wf)
  /\ db = EmptyDb
  /\ clock = 1
  /\ mode = "store"
  /\ rt = TRUE
  /\ seen = ""
  /\ node = "END"
  /\ st \in StoreStates
  /\ pcs = "idle"
  /\ err = ""
  /\ path = <<>>
  /\ out = Blank
  /\ pre = Blank
  /\ runs = 0
  /\ lastOp = NoOp

StoreCall(op, id, dec, ok, ret, d) ==
  /\ runs < MaxStoreOps
  /\ runs' = runs + 1
  /\ db' = d
  /\ lastOp' = OpU(op, id, dec, ok, ret)
  /\ UNCHANGED <<graphs, wf, mode, rt, seen, node, st, pcs, err, path, out, pre>>

\* review_db.enqueue(id, dict(state)), of either ReviewQueueDB class
StoreEnqueue ==
  \E id \in Ids :
    /\ StoreCall("enqueue", id, "", TRUE, "", enqueue(db, id, st, clock))
    /\ clock' = clock + 1

\* ReviewQueueDB.set_decision(id, dec), of persistence/review_db.py
StoreSetDecision ==
  \E id \in Ids, dec \in Decisions :
    /\ StoreCall("set_decision", id, dec, TRUE, "", set_decision(db, id, dec))
    /\ clock' = clock

\* ReviewQueueDB.set_decision(id, dec), of runner.py
RunnerSetDecision ==
  \E id \in Ids, dec \in Decisions :
    /\ StoreCall("runner_set_decision", id, dec, TRUE, "",
                 runner_set_decision(db, id, dec))
    /\ clock' = clock

\* ReviewQueueDB.set_status(id, "DECIDED"), of runner.py
RunnerSetStatus ==
  \E id \in Ids :
    /\ StoreCall("runner_set_status", id, "DECIDED", TRUE, "",
                 set_status(db, id, "DECIDED"))
    /\ clock' = clock

\* POST /review/{checkpoint_id}/decision, as one of the calls
StoreApiSetDecision ==
  \E id \in Ids, dec \in Decisions :
    /\ IF get(db, id).found
       THEN StoreCall("api_set_decision", id, dec, TRUE, "DECIDED",
                      set_decision(db, id, dec))
       ELSE StoreCall("api_set_decision", id, dec, FALSE, "404", db)
    /\ clock' = clock

NextStore ==
  \/ StoreEnqueue
  \/ StoreSetDecision
  \/ RunnerSetDecision
  \/ RunnerSetStatus
  \/ StoreApiSetDecision

SpecStore == InitStore /\ [][NextStore]_vars

\* ------------------------------------------------- building the graphs
InitGraph ==
  /\ wf \in GraphWorkflows \cup DefectiveWorkflows \cup UnloadableWorkflows
  /\ graphs = NoGraphs
  /\ db = EmptyDb
  /\ clock = 1
  /\ mode = "build"
  /\ rt = TRUE
  /\ seen = ""
  /\ node = "END"
  /\ st = Blank
  /\ pcs = "idle"
  /\ err = ""
  /\ path = <<>>
  /\ out = Blank
  /\ pre = Blank
  /\ runs = 0
  /\ lastOp = NoOp

\* main_app, resume_app, workflow = build_graphs(workflow_path)
BuildGraphs ==
  /\ graphs = NoGraphs
  /\ pcs = "idle"
  /\ IF _index_stages(wf) = "ok"
     THEN /\ graphs' = build_graphs(wf)
          /\ pcs' = "returned"
          /\ err' = ""
     ELSE /\ graphs' = graphs
          /\ pcs' = "raised"
          /\ err' = _index_stages(wf)
  /\ UNCHANGED <<wf, db, clock, mode, rt, seen, node, st, path, out, pre, runs,
                 lastOp>>

NextGraph == BuildGraphs

SpecGraph == InitGraph /\ [][NextGraph]_vars

\* ================================================================= claims
LastStage == IF Len(path) = 0 THEN NoStage ELSE path[Len(path)]

\* the checkpoint row the state of a resume invocation points at: the id in
\* its review_url
ResumedRow ==
  IF Has(st, "review_url") /\ st.review_url.id \in Ids
  THEN db[st.review_url.id] ELSE NoRow

\* a resume invocation, with a runtime, of a run whose checkpoint row held
\* the decision dec when the invocation started and holds it still
ResumeAfter(dec) ==
  /\ mode = "resume"
  /\ rt
  /\ seen = dec
  /\ ResumedRow.present
  /\ ResumedRow.decision = dec

AcceptPath ==
  <<"HITL_DECISION", "RECONCILE", "APPROVE", "POSTING", "NOTIFY", "COMPLETE">>

\* C1: a resume invocation on the state of a run that paused, made after the
\* checkpoint row received ACCEPT, does not raise, and when it has returned
\* it has executed HITL_DECISION, RECONCILE and the stages up to COMPLETE and
\* its status is COMPLETED.
C1_ResumeAcceptCompletes ==
  ResumeAfter("ACCEPT") =>
    /\ pcs # "raised"
    /\ pcs = "returned" => (path = AcceptPath /\ GetStatus(out) = "COMPLETED")

\* C2: a resume invocation made after the checkpoint row received REJECT
\* does not raise, never has status COMPLETED, and returns with status
\* REQUIRES_MANUAL_HANDLING.
C2_ResumeRejectManual ==
  ResumeAfter("REJECT") =>
    /\ pcs # "raised"
    /\ GetStatus(st) # "COMPLETED"
    /\ pcs = "returned" => GetStatus(out) = "REQUIRES_MANUAL_HANDLING"

\* C3: right after MATCH_TWO_WAY the graph continues at CHECKPOINT_HITL when
\* match_score < threshold and at RECONCILE when match_score >= threshold,
\* the threshold being globals.match_threshold or 0.85 when it is not set.
C3_MatchRouting ==
  (pcs = "running" /\ LastStage = "MATCH_TWO_WAY") =>
    LET thr == IF wf.match_threshold = NoThreshold THEN 85 ELSE wf.match_threshold
        score == IF Has(st, "match_score") THEN st.match_score ELSE 0
    IN /\ score < thr => node = "CHECKPOINT_HITL"
       /\ score >= thr => node = "RECONCILE"

\* C3 witness: MATCH_TWO_WAY has run, the score equals the threshold and the
\* graph continues at RECONCILE.
C3_Witness ==
  /\ pcs = "running" /\ LastStage = "MATCH_TWO_WAY" /\ rt
  /\ Has(st, "match_score") /\ st.match_score = wf.match_threshold
  /\ node = "RECONCILE"

\* the decision the state a call was given carries (None when it has none)
ArgDecision == IF "decision" \in lastOp.arg.has THEN lastOp.arg.decision ELSE "None"

\* C4: the router of HITL_DECISION returns RECONCILE exactly when
\* state.decision is ACCEPT and COMPLETE for REJECT, for None, for a missing
\* decision and for any other value, without raising; and the graph follows
\* it after the HITL_DECISION node.
C4_DecisionRouting ==
  /\ (lastOp.op = "route" /\ lastOp.dec = "HITL_DECISION") =>
       /\ lastOp.ok
       /\ lastOp.ret \in {"RECONCILE", "COMPLETE"}
       /\ lastOp.ret = "RECONCILE" <=> ArgDecision = "ACCEPT"
  /\ (lastOp.op = "node" /\ lastOp.dec = "HITL_DECISION" /\ lastOp.ok) =>
       /\ node \in {"RECONCILE", "COMPLETE"}
       /\ node = "RECONCILE" <=> (Has(st, "decision") /\ st.decision = "ACCEPT")

\* C4 witness: the router was called on a state whose decision is neither
\* ACCEPT, REJECT nor None and it returned COMPLETE.
C4_Witness ==
  /\ lastOp.op = "route" /\ lastOp.dec = "HITL_DECISION"
  /\ ArgDecision = OtherDecision
  /\ lastOp.ret = "COMPLETE"

\* C5: in an invocation of the main graph CHECKPOINT_HITL is the last stage
\* that executes: once it has run the invocation has returned, whatever
\* `next` and `terminal` the workflow gives that stage.
C5_MainStopsAtCheckpoint ==
  mode = "main" =>
    \A i \in 1..Len(path) :
      path[i] = "CHECKPOINT_HITL" => (i = Len(path) /\ pcs = "returned" /\ node = "END")

\* C5 witness: a main invocation has run CHECKPOINT_HITL of a workflow that
\* gives the stage a `next` and does not mark it terminal, and has returned.
C5_Witness ==
  /\ mode = "main" /\ LastStage = "CHECKPOINT_HITL" /\ pcs = "returned"
  /\ wf.cp_next = "HITL_DECISION" /\ ~wf.cp_terminal /\ rt

\* C6: right after enqueue(id, S), get(id) returns a record whose state is
\* S, whose status is the configured pause status and whose decision is None.
C6_EnqueueGetRoundTrip ==
  lastOp.op = "enqueue" =>
    LET r == get(db, lastOp.id)
    IN /\ r.found
       /\ r.state = lastOp.arg
       /\ r.status = PauseStatus(wf)
       /\ r.decision = "None"

SetDecisionOps == {"set_decision", "runner_set_decision", "api_set_decision"}

\* C7: set_decision(id, d) on an id that has no row does not return normally.
C7_SetDecisionUnknownFails ==
  (lastOp.op \in SetDecisionOps /\ ~lastOp.had) => ~lastOp.ok

\* C8: right after set_decision(id, d) on an id that has a row, get(id)
\* returns decision d and status DECIDED.
C8_SetDecisionThenGet ==
  (lastOp.op \in SetDecisionOps /\ lastOp.had) =>
    LET r == get(db, lastOp.id)
    IN r.found /\ r.decision = lastOp.dec /\ r.status = "DECIDED"

\* the checkpoint id the state a call was given carries (0 when it has none)
ArgCheckpointId ==
  IF "checkpoint_id" \in lastOp.arg.has THEN lastOp.arg.checkpoint_id ELSE 0

\* C9: HITL_DECISION on a state without checkpoint_id, or whose checkpoint_id
\* has no row, raises: the node does not return and no routing follows.
C9_DecisionNeedsCheckpoint ==
  (/\ lastOp.op = "node" /\ lastOp.dec = "HITL_DECISION"
   /\ \/ ArgCheckpointId = 0
      \/ ~lastOp.before[ArgCheckpointId].present) =>
    /\ ~lastOp.ok
    /\ pcs = "raised"
    /\ err \in {"checkpoint_id_required", "no_review_record"}
    /\ lastOp.ret = ""
    /\ ~Has(st, "decision") \/ st.decision = ArgDecision

\* C9 witness: HITL_DECISION ran on a state with a checkpoint_id that has no
\* row, and raised.
C9_Witness ==
  /\ lastOp.op = "node" /\ lastOp.dec = "HITL_DECISION"
  /\ ArgCheckpointId # 0 /\ ~lastOp.before[ArgCheckpointId].present
  /\ pcs = "raised" /\ err = "no_review_record"

\* the status the state a call was given carries (None when it has none)
ArgStatus == IF "status" \in lastOp.arg.has THEN lastOp.arg.status ELSE "None"

\* C10: the COMPLETE stage leaves a status REQUIRES_MANUAL_HANDLING or FAILED
\* as it is and sets every other status to COMPLETED.
C10_CompleteKeepsManual ==
  (lastOp.op = "node" /\ lastOp.dec = "COMPLETE") =>
    /\ lastOp.ok
    /\ ArgStatus \in {"REQUIRES_MANUAL_HANDLING", "FAILED"} => GetStatus(st) = ArgStatus
    /\ ArgStatus \notin {"REQUIRES_MANUAL_HANDLING", "FAILED"} => GetStatus(st) = "COMPLETED"

\* C10 witness: COMPLETE ran on a state with status REQUIRES_MANUAL_HANDLING
\* and the status is still REQUIRES_MANUAL_HANDLING.
C10_Witness ==
  /\ lastOp.op = "node" /\ lastOp.dec = "COMPLETE"
  /\ ArgStatus = "REQUIRES_MANUAL_HANDLING"
  /\ GetStatus(st) = "REQUIRES_MANUAL_HANDLING"

\* C11: in every state of a main or resume invocation, and in the state it
\* returns, status is one of NEW, IN_PROGRESS, PAUSED,
\* REQUIRES_MANUAL_HANDLING, COMPLETED, FAILED, whatever globals configures.
C11_StatusInEnum ==
  /\ Has(st, "status") => st.status \in WorkflowStatus
  /\ Has(out, "status") => out.status \in WorkflowStatus

\* C12: a state returned to the caller with the pause status carries
\* checkpoint_id and review_url, and checkpoint_id is the key of a row of
\* the store; the state of a resume invocation of it carries the same id.
C12_PausedHasCheckpoint ==
  /\ (pcs = "returned" /\ Paused(out)) =>
       /\ Has(out, "review_url")
       /\ Has(out, "checkpoint_id")
       /\ out.checkpoint_id \in Ids
       /\ db[out.checkpoint_id].present
  /\ (mode = "resume" /\ Paused(out)) =>
       (Has(st, "checkpoint_id") /\ st.checkpoint_id = out.checkpoint_id)

\* HITL_DECISION has copied the decision of the row into the state
DecisionLoaded(s) ==
  \E i \in 1..Len(s.logs) : s.logs[i] = <<"HITL_DECISION", "hitl_decision_loaded">>

\* C13: state.decision is None or absent until a decision recorded in the
\* store has been loaded, and once it is ACCEPT or REJECT no later pause,
\* decision or resume step of the run changes it.
C13_DecisionMonotone ==
  [][/\ (GetDecision(st') \in Decisions /\ GetDecision(st') # GetDecision(st)) =>
          (GetCheckpointId(st) \in Ids /\ db[GetCheckpointId(st)].decision = GetDecision(st'))
     /\ (GetDecision(st) \in Decisions /\ DecisionLoaded(st)) =>
          GetDecision(st') = GetDecision(st)]_vars

\* C14: an invocation of the main or the resume graph that returns without
\* raising returns a state whose status is PAUSED, COMPLETED,
\* REQUIRES_MANUAL_HANDLING or FAILED.
C14_ReturnedStatusFinal ==
  pcs = "returned" =>
    GetStatus(out) \in {"PAUSED", "COMPLETED", "REQUIRES_MANUAL_HANDLING", "FAILED"}

\* a main invocation whose MATCH_TWO_WAY left a score at or above the threshold
MatchedRun(s, p) ==
  /\ mode = "main"
  /\ \E i \in 1..Len(p) : p[i] = "MATCH_TWO_WAY"
  /\ Has(s, "match_score")
  /\ GetMatchScore(s) >= Threshold(wf)

\* C15: a main invocation whose match_score reached the threshold never
\* executes CHECKPOINT_HITL, never has the pause status, never holds a
\* checkpoint_id and writes nothing to the store, and, under a workflow
\* document whose stages and abilities all resolve, it returns from
\* COMPLETE, reached through RECONCILE, with status COMPLETED.
C15_MatchedRunCompletes ==
  /\ [](MatchedRun(st, path) =>
          /\ wf.defect = "none" => pcs # "raised"
          /\ \A i \in 1..Len(path) : path[i] \notin {"CHECKPOINT_HITL", "HITL_DECISION"}
          /\ GetStatus(st) \notin {"PAUSED", PauseStatus(wf)}
          /\ ~Has(st, "checkpoint_id")
          /\ ~Has(st, "review_url")
          /\ pcs = "returned" =>
               /\ path = SelectSeq(StageOrder,
                           LAMBDA x : x \notin {"CHECKPOINT_HITL", "HITL_DECISION"})
               /\ GetStatus(out) = "COMPLETED")
  /\ [][(MatchedRun(st', path') /\ path' # path) => db' = db]_vars

C15_Witness ==
  /\ MatchedRun(st, path)
  /\ GetMatchScore(st) = Threshold(wf)
  /\ pcs = "returned"
  /\ LastStage = "COMPLETE"
  /\ \E id \in Ids : db[id].present

\* C16: whatever order the enqueue, set_decision and set_status statements
\* of concurrent callers take effect in, a get of any id returns not-found
\* or a whole record: the id asked for, its review URL, a state some
\* enqueue stored, the time of that enqueue, a status and a decision that
\* completed calls wrote; right after an enqueue all of them are that
\* enqueue's.
C16_GetSeesWholeRecord ==
  \A id \in Ids :
    LET r == get(db, id)
    IN IF ~r.found THEN r = NotFound
       ELSE /\ r.checkpoint_id = id
            /\ r.review_url = enqueue_url(id)
            /\ r.state = json_loads(json_dumps(st))
            /\ r.created_at \in 1..(clock - 1)
            /\ r.status \in {"PAUSED", "DECIDED"}
            /\ r.decision \in Decisions \cup {"None"}
            /\ (lastOp.op = "enqueue" /\ lastOp.id = id) =>
                 /\ r.created_at = clock - 1
                 /\ r.status = "PAUSED"
                 /\ r.decision = "None"

C16_Witness ==
  /\ lastOp.op = "enqueue"
  /\ lastOp.before[lastOp.id].present
  /\ lastOp.before[lastOp.id].decision \in Decisions
  /\ get(db, lastOp.id).decision = "None"
  /\ \E id \in Ids : ~get(db, id).found

\* C17: a decision the endpoint reported as stored for a checkpoint is the
\* decision a resume of that checkpoint started afterwards holds in
\* state.decision once HITL_DECISION has run: the write is not lost.
C17_DecisionReachesResume ==
  \A dec \in Decisions :
    (ResumeAfter(dec) /\ LastStage = "HITL_DECISION") =>
      (pcs # "raised" /\ GetDecision(st) = dec)

\* C18: after enqueue(id, S), whatever the store held, the row of id has
\* the pause status, decision None and state S; an enqueue(id, S) that
\* finds the row a first enqueue(id, S) left keeps its status, decision,
\* state and review_url.
C18_EnqueueIdempotentUpsert ==
  lastOp.op = "enqueue" =>
    LET r == get(db, lastOp.id)
        b == get(lastOp.before, lastOp.id)
    IN /\ r.found
       /\ r.status = PauseStatus(wf)
       /\ r.decision = "None"
       /\ r.state = lastOp.arg
       /\ r.review_url = enqueue_url(lastOp.id)
       /\ (b.found /\ b.state = lastOp.arg /\ b.decision = "None" /\ b.status = "PAUSED") =>
            /\ r.status = b.status
            /\ r.decision = b.decision
            /\ r.state = b.state
            /\ r.review_url = b.review_url

BranchTargets(sid) ==
  IF sid = "MATCH_TWO_WAY" THEN {"CHECKPOINT_HITL", "RECONCILE"}
  ELSE IF sid = "HITL_DECISION" THEN {"RECONCILE", "COMPLETE"}
  ELSE {}

BranchStages == {"MATCH_TWO_WAY", "HITL_DECISION"}

Range(f) == {f[i] : i \in DOMAIN f}

\* states the routers are asked about
RoutedStates ==
  {WithScore(BaseState, v) : v \in UnitScores}
  \cup {WithDecision(BaseState, v) : v \in Decisions \cup {"None"}}

\* C19 as stated: in the main graph built from any workflow document, a
\* stage that is neither terminal nor a branch stage has exactly one
\* outgoing edge, and each branch stage has exactly its two conditional
\* targets.
C19_EdgesAsStated ==
  graphs # NoGraphs =>
    \A sid \in StageIds :
      LET e == graphs.main.edges[sid]
      IN /\ (~StageTerminal(wf, sid) /\ sid \notin BranchStages) => Len(e) = 1
         /\ sid \in BranchStages => (Len(e) = 2 /\ Range(e) = BranchTargets(sid))

\* C19, amended: in the main graph built from any workflow document, a
\* stage that is neither terminal nor a branch stage has exactly one
\* outgoing edge, a branch stage that is not marked terminal has exactly
\* its two conditional targets behind its router, a stage marked terminal
\* has the single edge to END, and the stage the graph runs next is always
\* one of those targets.
C19_MainGraphEdges ==
  graphs # NoGraphs =>
    \A sid \in StageIds :
      LET e == graphs.main.edges[sid]
      IN /\ (~StageTerminal(wf, sid) /\ sid \notin BranchStages) =>
              (Len(e) = 1 /\ graphs.main.routers[sid] = "none")
         /\ (~StageTerminal(wf, sid) /\ sid \in BranchStages) =>
              /\ Len(e) = 2
              /\ Range(e) = BranchTargets(sid)
              /\ graphs.main.routers[sid] # "none"
         /\ StageTerminal(wf, sid) => e = <<"END">>
         /\ \A s \in RoutedStates : Edge(wf, TRUE, sid, s) \in Range(e)

C19_Witness ==
  /\ graphs # NoGraphs
  /\ wf.match_terminal /\ ~wf.decision_terminal
  /\ ~wf.cp_terminal /\ wf.cp_next = "HITL_DECISION"
  /\ graphs.main.edges["MATCH_TWO_WAY"] = <<"END">>
  /\ graphs.main.edges["CHECKPOINT_HITL"] = <<"END">>
  /\ graphs.main.edges["HITL_DECISION"] = <<"RECONCILE", "COMPLETE">>

\* C20: the resume graph has HITL_DECISION as its entry point, the main
\* graph INTAKE; both have the same node function for every stage, and for
\* every stage but CHECKPOINT_HITL the same outgoing edges, the same router
\* and the same next stage for any state; CHECKPOINT_HITL leads to END in
\* the main graph and along the workflow's own edge in the resume graph.
C20_ResumeGraphSameEdges ==
  graphs # NoGraphs =>
    /\ graphs.resume.entry = "HITL_DECISION"
    /\ graphs.main.entry = "INTAKE"
    /\ graphs.resume.nodes = graphs.main.nodes
    /\ \A sid \in StageIds \ {"CHECKPOINT_HITL"} :
         /\ graphs.resume.edges[sid] = graphs.main.edges[sid]
         /\ graphs.resume.routers[sid] = graphs.main.routers[sid]
         /\ \A s \in RoutedStates : Edge(wf, FALSE, sid, s) = Edge(wf, TRUE, sid, s)
    /\ graphs.main.edges["CHECKPOINT_HITL"] = <<"END">>
    /\ graphs.resume.edges["CHECKPOINT_HITL"] =
         IF StageTerminal(wf, "CHECKPOINT_HITL") \/ StageNext(wf, "CHECKPOINT_HITL") = NoStage
         THEN <<"END">> ELSE <<StageNext(wf, "CHECKPOINT_HITL")>>
    /\ \A s \in RoutedStates :
         Edge(wf, FALSE, "CHECKPOINT_HITL", s) \in Range(graphs.resume.edges["CHECKPOINT_HITL"])

C20_Witness ==
  /\ graphs # NoGraphs
  /\ graphs.main.entry # graphs.resume.entry
  /\ graphs.resume.edges["CHECKPOINT_HITL"] = <<"HITL_DECISION">>
  /\ graphs.main.edges["CHECKPOINT_HITL"] # graphs.resume.edges["CHECKPOINT_HITL"]

\* the defects of a workflow document that loading and compiling it is
\* said to reject
ConfigDefects == LoadDefects \cup {"undefined_ability"}

\* C21: under a workflow document with a stage without id, a duplicate
\* stage id, an empty stage list or a stage ability missing from
\* `abilities`, no graph is handed out and no stage ever executes: building
\* the graphs has failed first.
C21_ConfigErrorBeforeStages ==
  wf.defect \in ConfigDefects => (path = <<>> /\ pcs \in {"idle", "raised"})

\* C22: every change of state.status made by a stage of a run, after the
\* node has turned a NEW or missing status into IN_PROGRESS, goes along
\* NEW -> IN_PROGRESS, IN_PROGRESS -> PAUSED, COMPLETED,
\* REQUIRES_MANUAL_HANDLING or FAILED, or PAUSED -> IN_PROGRESS; a paused
\* status never turns directly into COMPLETED or REQUIRES_MANUAL_HANDLING.
C22_StatusTransitions ==
  [][LET mid == IF GetStatus(st) \in {"None", "NEW"} THEN "IN_PROGRESS"
                ELSE GetStatus(st)
     IN (path' # path /\ GetStatus(st') # mid
         /\ mid \in WorkflowStatus /\ GetStatus(st') \in WorkflowStatus)
          => <<mid, GetStatus(st')>> \in
               {<<"NEW", "IN_PROGRESS">>, <<"PAUSED", "IN_PROGRESS">>,
                <<"IN_PROGRESS", "PAUSED">>, <<"IN_PROGRESS", "COMPLETED">>,
                <<"IN_PROGRESS", "REQUIRES_MANUAL_HANDLING">>,
                <<"IN_PROGRESS", "FAILED">>}]_vars

\* the error execute_stage raises for each defect the executor meets
DefectError(w) ==
  CASE w.defect = "undefined_ability" -> "ability_not_defined"
    [] w.defect = "unknown_server" -> "unknown_server"
    [] w.defect = "unknown_tool" -> "unknown_tool"
    [] w.defect = "stage_missing" -> "stage_not_found"
    [] OTHER -> ""

\* C23: an invocation that reaches the stage whose id the runtime's document
\* lacks, or whose first ability is undefined, names an unknown server or
\* names a tool the invoker does not know, raises that error in that stage:
\* no result of the stage is merged, the stage does not end, no later stage
\* starts, the status stays IN_PROGRESS and nothing is returned.
C23_ExecuteStageErrors ==
  (wf.defect \in RunDefects /\ rt /\ \E i \in 1..Len(path) : path[i] = "POSTING") =>
    /\ pcs = "raised"
    /\ err = DefectError(wf)
    /\ LastStage = "POSTING"
    /\ ~Has(st, "erp_post_result")
    /\ st.logs[Len(st.logs)] # <<"POSTING", "stage_end">>
    /\ GetStatus(st) = "IN_PROGRESS"
    /\ node = "POSTING"

C23_Witness ==
  /\ wf.defect = "unknown_tool" /\ rt
  /\ LastStage = "POSTING"
  /\ pcs = "raised"
  /\ \E id \in Ids : db[id].present

\* C24: an invocation that raised in a stage other than CHECKPOINT_HITL has
\* not executed CHECKPOINT_HITL, and no stage other than CHECKPOINT_HITL
\* changes the store, whether it raises or not: the store of a failed run
\* is the store the run started with, but for decisions reviewers posted.
C24_FailedRunLeavesStore ==
  /\ []((pcs = "raised" /\ LastStage # "CHECKPOINT_HITL") =>
          \A i \in 1..Len(path) : path[i] # "CHECKPOINT_HITL")
  /\ [][(Len(path') = Len(path) + 1 /\ path'[Len(path')] # "CHECKPOINT_HITL")
          => db' = db]_vars

C24_Witness ==
  /\ pcs = "raised"
  /\ mode = "main"
  /\ LastStage = "POSTING"
  /\ err = "ability_not_defined"
  /\ \E id \in Ids : db[id].present /\ db[id].decision \in Decisions

\* the events the abilities of a stage log when they are called in the
\* declared order, from the i-th on
RECURSIVE AbilityEvents(_, _)
AbilityEvents(sid, i) ==
  IF i > Len(StageAbilities(sid)) THEN <<>>
  ELSE (IF StageAbilities(sid)[i] \in PoolAbilities
        THEN <<<<sid, "bigtool_select">>>> ELSE <<>>)
       \o <<<<sid, "ability_call">>, <<sid, "ability_result">>>>
       \o AbilityEvents(sid, i + 1)

\* the events of one whole stage of the main graph, its router included
StageEvents(sid) ==
  <<<<sid, "stage_start">>>>
  \o (IF sid = "CHECKPOINT_HITL" THEN <<<<sid, "checkpoint_created">>>>
      ELSE AbilityEvents(sid, 1))
  \o (IF sid = "MATCH_TWO_WAY" THEN <<<<sid, "match_evaluated">>>> ELSE <<>>)
  \o <<<<sid, "stage_end">>>>
  \o (IF sid = "MATCH_TWO_WAY" THEN <<<<sid, "route_decision">>>> ELSE <<>>)

\* the events of the first n stages of the path
RECURSIVE PathEvents(_)
PathEvents(n) ==
  IF n = 0 THEN <<>> ELSE PathEvents(n - 1) \o StageEvents(path[n])

\* the graph of the current invocation
CurrentGraph == IF mode = "main" THEN graphs.main ELSE graphs.resume

C26_LastWriteWins ==
  (lastOp.op \in SetDecisionOps /\ lastOp.had) =>
    LET r == get(db, lastOp.id)
        b == get(lastOp.before, lastOp.id)
    IN /\ r.found
       /\ r.decision = lastOp.dec
       /\ (b.decision = lastOp.dec /\ (b.status = "DECIDED" \/ lastOp.op = "runner_set_decision"))
            => db = lastOp.before

C26_Witness ==
  /\ lastOp.op \in {"set_decision", "api_set_decision"}
  /\ lastOp.had
  /\ lastOp.before[lastOp.id].decision \in Decisions \ {lastOp.dec}
  /\ get(db, lastOp.id).decision = lastOp.dec

\* the CHECKPOINT_HITL node was the last direct call
CheckpointCall ==
  lastOp.op = "node" /\ lastOp.dec = "CHECKPOINT_HITL" /\ lastOp.ok

\* C27: the CHECKPOINT_HITL stage leaves in the state the checkpoint_id the
\* state came with, or an id the store did not hold when it came with
\* none; it writes the row of that id and no other, sets status to the
\* configured pause status, and logs the stage's start, checkpoint_created
\* and the stage's end only: no ability of the stage is called.
C27_CheckpointReusesId ==
  CheckpointCall =>
    LET old == GetCheckpointId(lastOp.arg)
        cid == GetCheckpointId(st)
    IN /\ cid \in Ids
       /\ old # 0 => cid = old
       /\ old = 0 => ~lastOp.before[cid].present
       /\ db[cid].present
       /\ \A id \in Ids \ {cid} : db[id] = lastOp.before[id]
       /\ GetStatus(st) = PauseStatus(wf)
       /\ st.review_url = enqueue_url(cid)
       /\ st.logs = ensure_defaults(lastOp.arg).logs
                    \o <<<<"CHECKPOINT_HITL", "stage_start">>,
                         <<"CHECKPOINT_HITL", "checkpoint_created">>,
                         <<"CHECKPOINT_HITL", "stage_end">>>>

C27_Witness ==
  /\ CheckpointCall
  /\ GetCheckpointId(lastOp.arg) = 1
  /\ lastOp.before[1].present
  /\ lastOp.before[1].created_at < db[1].created_at
  /\ ~db[2].present
  /\ wf.pause_status = "ON_HOLD"

\* C28: a HITL_DECISION that loaded REJECT leaves the configured reject
\* status in the state and routes to COMPLETE, and the COMPLETE stage that
\* ends the resume leaves that status in place.
C28_RejectStatusKept ==
  /\ (lastOp.op = "node" /\ lastOp.dec = "HITL_DECISION" /\ lastOp.ok
      /\ GetDecision(st) = "REJECT") =>
       (GetStatus(st) = RejectStatus(wf) /\ lastOp.ret = "COMPLETE")
  /\ (lastOp.op = "node" /\ lastOp.dec = "COMPLETE" /\ lastOp.ok
      /\ DecisionLoaded(pre) /\ GetDecision(pre) = "REJECT"
      /\ GetStatus(pre) = RejectStatus(wf)) =>
       GetStatus(st) = RejectStatus(wf)

\* C29: once MATCH_TWO_WAY has executed in a run with a runtime, needs_hitl
\* is present in the state and equals (match_score < threshold), and the
\* stage the run goes to next is CHECKPOINT_HITL exactly when needs_hitl is
\* true.
C29_NeedsHitlAgreesWithRoute ==
  (rt /\ mode = "main") =>
    \A i \in 1..Len(path) :
      (path[i] = "MATCH_TWO_WAY" /\ (i < Len(path) \/ pcs # "raised")) =>
        /\ Has(st, "needs_hitl")
        /\ st.needs_hitl = (GetMatchScore(st) < Threshold(wf))
        /\ i < Len(path) => (path[i + 1] = "CHECKPOINT_HITL" <=> st.needs_hitl)
        /\ (i = Len(path) /\ pcs = "running") =>
             (node = "CHECKPOINT_HITL" <=> st.needs_hitl)

C29_Witness ==
  /\ rt /\ mode = "main" /\ pcs = "returned"
  /\ Len(path) >= 2
  /\ path[Len(path) - 1] = "MATCH_TWO_WAY"
  /\ LastStage = "CHECKPOINT_HITL"
  /\ Has(st, "needs_hitl") /\ st.needs_hitl
  /\ GetMatchScore(st) < Threshold(wf)

\* C30: state.logs only grows at its end: a step of a run leaves the logs it
\* started from as a prefix of the logs it ends with, and a resume that
\* starts from the paused state of a run, passed on in memory or reloaded
\* from the run's checkpoint row, starts with logs that have the logs of
\* that paused state as a prefix.
C30_LogsAppendOnly ==
  [][ /\ pcs = "running" =>
           /\ Len(st.logs) <= Len(st'.logs)
           /\ SubSeq(st'.logs, 1, Len(st.logs)) = st.logs
      /\ (pcs = "returned" /\ pcs' = "running" /\ mode' = "resume"
          /\ Paused(out) /\ Has(out, "review_url") /\ Has(st', "review_url")
          /\ st'.review_url = out.review_url) =>
           /\ Len(out.logs) <= Len(st'.logs)
           /\ SubSeq(st'.logs, 1, Len(out.logs)) = out.logs ]_vars

\* C31: every invocation of the main graph and of the resume graph ends, by
\* reaching END or by raising, and executes no stage twice: every edge of
\* the two graphs leads forward in the order of the stages or to END, the
\* stages executed are pairwise different, and a running invocation
\* eventually has returned or raised.
C31_RunsTerminate ==
  /\ [](\A g \in {graphs.main, graphs.resume} :
         \A i \in 1..Len(StageOrder) :
           \A target \in Range(g.edges[StageOrder[i]]) :
             \/ target = "END"
             \/ \E j \in (i + 1)..Len(StageOrder) : StageOrder[j] = target)
  /\ [](\A i, j \in 1..Len(path) : i # j => path[i] # path[j])
  /\ (pcs = "running") ~> (pcs \in {"returned", "raised"})

C31_Witness ==
  /\ mode = "main" /\ pcs = "returned"
  /\ LastStage = "COMPLETE"
  /\ path = SelectSeq(StageOrder,
               LAMBDA x : x \notin {"CHECKPOINT_HITL", "HITL_DECISION"})
  /\ runs = MaxRuns

\* C32: after a main run has paused, resume_state_from_checkpoint of the id
\* of its checkpoint returns the state the run returned with exactly one
\* resume_loaded event appended to its logs, checkpoint_id = id and the
\* review_url of the row, and every other field as returned; and the resume
\* graph receives the same state from it as from the paused state, up to
\* the logs.
C32_DurableReload ==
  \A id \in Ids :
    (/\ pcs = "returned" /\ mode = "main" /\ rt
     /\ Paused(out) /\ Has(out, "review_url")
     /\ out.review_url = enqueue_url(id) /\ db[id].present) =>
      LET r == resume_state_from_checkpoint(db, id)
      IN /\ r.logs = Append(out.logs, <<"RESUME", "resume_loaded">>)
         /\ Has(r, "checkpoint_id") /\ r.checkpoint_id = id
         /\ Has(r, "review_url") /\ r.review_url = db[id].review_url
         /\ [r EXCEPT !.logs = <<>>] = [out EXCEPT !.logs = <<>>]
         /\ [Channels(r) EXCEPT !.logs = <<>>] = [Channels(out) EXCEPT !.logs = <<>>]

C34_CompletedOnlyAfterReconcile ==
  (/\ lastOp.op = "node" /\ lastOp.dec = "COMPLETE" /\ lastOp.ok
   /\ path = <<"HITL_DECISION", "COMPLETE">>
   /\ DecisionLoaded(pre)
   /\ GetDecision(pre) = "None"
   /\ GetCheckpointId(pre) \in Ids
   /\ db[GetCheckpointId(pre)].decision = "None") =>
    GetStatus(st) # "COMPLETED"

\* C35: in every reachable state of the store, every row has status DECIDED
\* exactly when its decision is ACCEPT or REJECT, and the configured pause
\* status exactly when its decision is None.
C35_StatusAgreesWithDecision ==
  \A id \in Ids :
    db[id].present =>
      /\ (db[id].status = "DECIDED") <=> (db[id].decision \in Decisions)
      /\ (db[id].status = PauseStatus(wf)) <=> (db[id].decision = "None")

\* the state snapshot the row of checkpoint id holds
Snapshot(id) == json_loads(db[id].state_json)

\* C36 (as stated): after CHECKPOINT_HITL the snapshot in the row and the
\* state the stage returns agree on the control fields: status is the pause
\* status, checkpoint_id is the row key and review_url is the row's
\* review_url, in both.
C36_SnapshotControlFields ==
  CheckpointCall =>
    LET cid == GetCheckpointId(st)
    IN /\ cid \in Ids /\ db[cid].present
       /\ GetStatus(st) = PauseStatus(wf)
       /\ GetStatus(Snapshot(cid)) = PauseStatus(wf)
       /\ GetCheckpointId(Snapshot(cid)) = cid
       /\ Has(st, "review_url") /\ st.review_url = db[cid].review_url
       /\ Has(Snapshot(cid), "review_url")
       /\ Snapshot(cid).review_url = db[cid].review_url

\* C36 (amended): after CHECKPOINT_HITL the snapshot and the returned state
\* agree on status (the pause status) and checkpoint_id (the row key); the
\* returned state holds the row's review_url, and the snapshot, taken before
\* the URL is stored, holds a review_url only when the state that entered
\* the stage did, and then that one.
C36_SnapshotBeforeReviewUrl ==
  CheckpointCall =>
    LET cid == GetCheckpointId(st)
    IN /\ cid \in Ids /\ db[cid].present
       /\ GetStatus(st) = PauseStatus(wf)
       /\ GetStatus(Snapshot(cid)) = PauseStatus(wf)
       /\ GetCheckpointId(Snapshot(cid)) = cid
       /\ Has(st, "review_url") /\ st.review_url = db[cid].review_url
       /\ Has(Snapshot(cid), "review_url") <=> Has(lastOp.arg, "review_url")
       /\ Snapshot(cid).review_url = lastOp.arg.review_url

C36_Witness ==
  /\ CheckpointCall
  /\ ~Has(lastOp.arg, "review_url")
  /\ ~Has(Snapshot(GetCheckpointId(st)), "review_url")
  /\ st.review_url = db[GetCheckpointId(st)].review_url
  /\ wf.pause_status = "ON_HOLD"

\* C37: set_decision(id, d) changes at most the decision and the status of
\* the row with key id: its state snapshot, review_url and created_at and
\* every other row stay as they were, and when no row has the id the whole
\* store stays as it was and no row is created.
C37_SetDecisionFrame ==
  lastOp.op \in SetDecisionOps =>
    /\ \A id \in Ids \ {lastOp.id} : db[id] = lastOp.before[id]
    /\ db[lastOp.id].present = lastOp.before[lastOp.id].present
    /\ db[lastOp.id].state_json = lastOp.before[lastOp.id].state_json
    /\ db[lastOp.id].review_url = lastOp.before[lastOp.id].review_url
    /\ db[lastOp.id].created_at = lastOp.before[lastOp.id].created_at
    /\ ~lastOp.before[lastOp.id].present => db = lastOp.before

C37_Witness ==
  /\ lastOp.op = "set_decision"
  /\ lastOp.before[lastOp.id].present
  /\ db[lastOp.id].decision # lastOp.before[lastOp.id].decision
  /\ db[lastOp.id].status # lastOp.before[lastOp.id].status
  /\ \E id \in Ids \ {lastOp.id} : db[id].present

\* the stages an invocation of graph g can execute: those its edges lead to
\* from its entry point
RECURSIVE ReachFrom(_, _, _)
ReachFrom(g, S, n) ==
  IF n = 0 THEN S
  ELSE ReachFrom(g, S \cup (UNION {Range(g.edges[sid]) : sid \in S} \ {"END"}), n - 1)

Reachable(g) == ReachFrom(g, {g.entry}, Len(StageOrder))

\* the stages that precede the pause
PrePauseStages == {"INTAKE", "UNDERSTAND", "PREPARE", "RETRIEVE", "MATCH_TWO_WAY"}

\* C38: no invocation of the main graph executes HITL_DECISION, no
\* invocation of the resume graph executes INTAKE..MATCH_TWO_WAY or
\* CHECKPOINT_HITL (neither graph has a path from its entry point to such a
\* stage), and no step of a resume invocation changes the checkpoint store.
C38_GraphsSplitAtPause ==
  /\ [](/\ "HITL_DECISION" \notin Reachable(graphs.main)
        /\ Reachable(graphs.resume) \cap (PrePauseStages \cup {"CHECKPOINT_HITL"}) = {})
  /\ [](/\ mode = "main" => "HITL_DECISION" \notin Range(path)
        /\ mode = "resume" =>
             Range(path) \cap (PrePauseStages \cup {"CHECKPOINT_HITL"}) = {})
  /\ [][(mode = "resume" /\ pcs = "running" /\ path' # path) => db' = db]_vars

C38_Witness ==
  /\ mode = "resume" /\ pcs # "running"
  /\ path = <<"HITL_DECISION">>
  /\ \E id \in Ids : db[id].present /\ db[id].decision \in Decisions

====
